---- MODULE Spec2Model ----
(***************************************************************************)
(* Model of powerapi/dispatcher/blocking_detector.py: the BlockingDetector *)
(* state machine over poison-message ids and its wrapping message-id       *)
(* counter.                                                                *)
(***************************************************************************)
EXTENDS Integers, Sequences, FiniteSets, TLC

VARIABLES
    state,                   \* self.state
    last_poison_message_id,  \* self.last_poison_message_id (None or an integer)
    last_message_id,         \* self.last_message_id
    message_id,              \* value returned by the last get_message_id call
    blocked,                 \* value returned by the last is_blocked call (FALSE before any call)
    raised,                  \* TRUE once a call has raised TypeError
    op,                      \* history: name of the last operation called
    prevState,               \* history: self.state before the last operation
    branch,                  \* history: branch of the transition rule taken by the last notification
    seenBlocked,             \* history: some notification has left the state at BLOCKED
    recent,                  \* history: the (at most three) most recent notified ids
    nNotified,               \* history: number of notify_poison_received calls
    nAlloc,                  \* history: number of get_message_id calls
    issuedAt,                \* history: index of the last call that returned each tracked id
    reuseGap,                \* history: calls between the two latest issues of a re-issued id
    pc,                      \* per caller: position inside an unserialized get_message_id call
    local_id,                \* per caller: the local variable message_id (line 75)
    loaded,                  \* per caller: the value read by the += of line 79
    returned,                \* history: ids returned by the unserialized calls, in order
    started,                 \* history: per caller, number of unserialized calls begun
    overlapped               \* history: a call has begun while another one was in progress

vars == <<state, last_poison_message_id, last_message_id, message_id, blocked,
          raised, op, prevState, branch, seenBlocked, recent, nNotified, nAlloc,
          issuedAt, reuseGap, pc, local_id, loaded, returned, started, overlapped>>

\* the variables of the unserialized callers
raceVars == <<pc, local_id, loaded, returned, started, overlapped>>

\* what an unserialized get_message_id call never touches
detectorVars == <<state, last_poison_message_id, message_id, blocked, raised, op,
                  prevState, branch, seenBlocked, recent, nNotified, nAlloc,
                  issuedAt, reuseGap>>

(***************************************************************************)
(* Program constants and model bounds                                      *)
(***************************************************************************)
max_id_value == 10000

\* Python's None for the two optional integers: a value outside the id range
\* [0, max_id_value] and different from the wraparound sentinel -1
None == -2

IdWindow == 2
MaxNotify == 6
MaxAlloc == 3
CycleNotify == 2
CallsPastWrap == 3

\* ids carried by the notifications: both ends of the identifier space
PoisonIds == (0 .. IdWindow) \cup ((max_id_value - IdWindow) .. max_id_value)

\* ids carried by the notifications interleaved with a full counter cycle
CycleIds == {0, max_id_value}

\* ids whose re-issue by get_message_id is recorded
TrackedIds == PoisonIds

CycleCalls == max_id_value + 1 + CallsPastWrap

\* unserialized get_message_id calls each caller makes
RaceCalls == 2

\* the two callers sharing one detector without serialization
Callers == {1, 2}

(***************************************************************************)
(* class State(Enum)                                                       *)
(***************************************************************************)
INIT == "INIT"
BLOCKED_INTER_1 == "BLOCKED_INTER_1"
BLOCKED_INTER_2 == "BLOCKED_INTER_2"
BLOCKED == "BLOCKED"
FINAL == "FINAL"

State == {INIT, BLOCKED_INTER_1, BLOCKED_INTER_2, BLOCKED, FINAL}

(***************************************************************************)
(* notify_poison_received, line 55: the successor test.                    *)
(***************************************************************************)
\* variant: any larger id passes the test
successor_test_increasing(last, id) ==
    id > last

successor_test(last, id) ==
    id = last + 1

(***************************************************************************)
(* notify_poison_received, lines 53-63: the transition rule.  The caller   *)
(* supplies the state, the stored last poison id and the notified id.      *)
(* The INIT test comes first, so the comparison with last + 1 is only      *)
(* evaluated in the other states.                                          *)
(***************************************************************************)
\* variant: a run of two consecutive ids is already taken as blocked
transition_two_message(st, last, id) ==
    IF st = INIT THEN BLOCKED_INTER_1
    ELSE IF id = last + 1 THEN
        IF st = BLOCKED_INTER_1 THEN BLOCKED
        ELSE IF st = BLOCKED_INTER_2 THEN BLOCKED
        ELSE IF st = BLOCKED THEN FINAL
        ELSE st
    ELSE IF st # BLOCKED /\ st # FINAL THEN BLOCKED_INTER_1
    ELSE st

\* variant: the reset branch has lost its BLOCKED/FINAL exemption
transition_reset_always(st, last, id) ==
    IF st = INIT THEN BLOCKED_INTER_1
    ELSE IF id = last + 1 THEN
        IF st = BLOCKED_INTER_1 THEN BLOCKED_INTER_2
        ELSE IF st = BLOCKED_INTER_2 THEN BLOCKED
        ELSE IF st = BLOCKED THEN FINAL
        ELSE st
    ELSE BLOCKED_INTER_1

\* variant: the reset branch exempts BLOCKED only
transition_final_reset(st, last, id) ==
    IF st = INIT THEN BLOCKED_INTER_1
    ELSE IF id = last + 1 THEN
        IF st = BLOCKED_INTER_1 THEN BLOCKED_INTER_2
        ELSE IF st = BLOCKED_INTER_2 THEN BLOCKED
        ELSE IF st = BLOCKED THEN FINAL
        ELSE st
    ELSE IF st # BLOCKED THEN BLOCKED_INTER_1
    ELSE st

\* variant: the INIT branch only fires for a non-zero (truthy) id
transition_init_truthy(st, last, id) ==
    IF st = INIT THEN (IF id # 0 THEN BLOCKED_INTER_1 ELSE INIT)
    ELSE IF id = last + 1 THEN
        IF st = BLOCKED_INTER_1 THEN BLOCKED_INTER_2
        ELSE IF st = BLOCKED_INTER_2 THEN BLOCKED
        ELSE IF st = BLOCKED THEN FINAL
        ELSE st
    ELSE IF st # BLOCKED /\ st # FINAL THEN BLOCKED_INTER_1
    ELSE st

\* variant: a broken run does not reset the progress (last elif missing)
transition_no_reset(st, last, id) ==
    IF st = INIT THEN BLOCKED_INTER_1
    ELSE IF id = last + 1 THEN
        IF st = BLOCKED_INTER_1 THEN BLOCKED_INTER_2
        ELSE IF st = BLOCKED_INTER_2 THEN BLOCKED
        ELSE IF st = BLOCKED THEN FINAL
        ELSE st
    ELSE st

\* variant: the inner chain is written with if instead of elif and falls through
transition_fallthrough(st, last, id) ==
    IF st = INIT THEN BLOCKED_INTER_1
    ELSE IF id = last + 1 THEN
        IF st \in {BLOCKED_INTER_1, BLOCKED_INTER_2, BLOCKED} THEN FINAL
        ELSE st
    ELSE IF st # BLOCKED /\ st # FINAL THEN BLOCKED_INTER_1
    ELSE st

transition(st, last, id) ==
    IF st = INIT THEN BLOCKED_INTER_1
    ELSE IF successor_test(last, id) THEN
        IF st = BLOCKED_INTER_1 THEN BLOCKED_INTER_2
        ELSE IF st = BLOCKED_INTER_2 THEN BLOCKED
        ELSE IF st = BLOCKED THEN FINAL
        ELSE st
    ELSE IF st # BLOCKED /\ st # FINAL THEN BLOCKED_INTER_1
    ELSE st

(***************************************************************************)
(* notify_poison_received, lines 53-63: which branch of the if/elif chain  *)
(* is entered ("none" when no condition of the chain holds).               *)
(***************************************************************************)
branch_taken(st, last, id) ==
    IF st = INIT THEN "init"
    ELSE IF successor_test(last, id) THEN "consecutive"
    ELSE IF st # BLOCKED /\ st # FINAL THEN "reset"
    ELSE "none"

(***************************************************************************)
(* notify_poison_received, lines 66-69: the stored last poison id.         *)
(***************************************************************************)
\* variant: the id is stored as received, without the wraparound sentinel
stored_poison_id_plain(id) ==
    id

\* variant: the wraparound sentinel is 0 instead of -1
stored_poison_id_zero(id) ==
    IF id = max_id_value THEN 0 ELSE id

stored_poison_id(id) ==
    IF id = max_id_value THEN -1 ELSE id

(***************************************************************************)
(* notify_poison_received, line 55: None + 1 raises TypeError.             *)
(***************************************************************************)
\* variant: the successor test is evaluated before the INIT test
successor_test_raises_first(st, last) ==
    last = None

successor_test_raises(st, last) ==
    st # INIT /\ last = None

(***************************************************************************)
(* is_blocked, line 72: the returned value.                                *)
(***************************************************************************)
\* variant: FINAL is reported as blocked too
is_blocked_value_final(st) ==
    st = BLOCKED \/ st = FINAL

\* variant: every state past INIT is reported as blocked
is_blocked_value_started(st) ==
    st # INIT

is_blocked_value(st) ==
    st = BLOCKED

(***************************************************************************)
(* get_message_id, lines 76-79: the counter after the call.                *)
(***************************************************************************)
\* variant: the counter wraps one id early
advance_message_id_early(cur) ==
    IF cur = max_id_value - 1 THEN 0 ELSE cur + 1

\* variant: the counter wraps one id late
advance_message_id_late(cur) ==
    IF cur > max_id_value THEN 0 ELSE cur + 1

advance_message_id(cur) ==
    IF cur = max_id_value THEN 0 ELSE cur + 1

(***************************************************************************)
(* History bookkeeping                                                     *)
(***************************************************************************)
PushRecent(seq, id) ==
    IF Len(seq) < 3 THEN Append(seq, id) ELSE Append(Tail(seq), id)

(***************************************************************************)
(* BlockingDetector.__init__                                               *)
(***************************************************************************)
\* variant: the message-id counter starts at 1
Init_counter_one ==
    /\ state = INIT
    /\ last_poison_message_id = None
    /\ last_message_id = 1
    /\ message_id = None
    /\ blocked = FALSE
    /\ raised = FALSE
    /\ op = "__init__"
    /\ prevState = INIT
    /\ branch = "none"
    /\ seenBlocked = FALSE
    /\ recent = <<>>
    /\ nNotified = 0
    /\ nAlloc = 0
    /\ issuedAt = [t \in TrackedIds |-> 0]
    /\ reuseGap = 0
    /\ pc = [c \in Callers |-> "idle"]
    /\ local_id = [c \in Callers |-> None]
    /\ loaded = [c \in Callers |-> None]
    /\ returned = <<>>
    /\ started = [c \in Callers |-> 0]
    /\ overlapped = FALSE

Init ==
    /\ state = INIT
    /\ last_poison_message_id = None
    /\ last_message_id = 0
    /\ message_id = None
    /\ blocked = FALSE
    /\ raised = FALSE
    /\ op = "__init__"
    /\ prevState = INIT
    /\ branch = "none"
    /\ seenBlocked = FALSE
    /\ recent = <<>>
    /\ nNotified = 0
    /\ nAlloc = 0
    /\ issuedAt = [t \in TrackedIds |-> 0]
    /\ reuseGap = 0
    /\ pc = [c \in Callers |-> "idle"]
    /\ local_id = [c \in Callers |-> None]
    /\ loaded = [c \in Callers |-> None]
    /\ returned = <<>>
    /\ started = [c \in Callers |-> 0]
    /\ overlapped = FALSE

(***************************************************************************)
(* BlockingDetector.notify_poison_received(message) with                   *)
(* message.dispatcher_report_id = id                                       *)
(***************************************************************************)
notify_poison_received(id) ==
    /\ op' = "notify_poison_received"
    /\ prevState' = state
    /\ recent' = PushRecent(recent, id)
    /\ nNotified' = nNotified + 1
    /\ IF successor_test_raises(state, last_poison_message_id)
       THEN /\ raised' = TRUE
            /\ branch' = "raise"
            /\ UNCHANGED <<state, last_poison_message_id, seenBlocked>>
       ELSE /\ state' = transition(state, last_poison_message_id, id)
            /\ last_poison_message_id' = stored_poison_id(id)
            /\ branch' = branch_taken(state, last_poison_message_id, id)
            /\ seenBlocked' = (seenBlocked \/ state' = BLOCKED)
            /\ UNCHANGED raised
    /\ UNCHANGED <<last_message_id, message_id, blocked, nAlloc, issuedAt, reuseGap>>
    /\ UNCHANGED raceVars

(***************************************************************************)
(* BlockingDetector.is_blocked()                                           *)
(***************************************************************************)
is_blocked ==
    /\ op' = "is_blocked"
    /\ prevState' = state
    /\ blocked' = is_blocked_value(state)
    /\ UNCHANGED <<state, last_poison_message_id, last_message_id, message_id,
                   raised, branch, seenBlocked, recent, nNotified, nAlloc,
                   issuedAt, reuseGap>>
    /\ UNCHANGED raceVars

(***************************************************************************)
(* BlockingDetector.get_message_id()                                       *)
(***************************************************************************)
\* variant: the increment is written to last_poison_message_id
get_message_id_wrong_field ==
    /\ op' = "get_message_id"
    /\ prevState' = state
    /\ message_id' = last_message_id
    /\ last_poison_message_id' = advance_message_id(last_message_id)
    /\ nAlloc' = nAlloc + 1
    /\ UNCHANGED <<state, last_message_id, blocked, raised, branch, seenBlocked,
                   recent, nNotified, issuedAt, reuseGap>>
    /\ UNCHANGED raceVars

get_message_id ==
    /\ op' = "get_message_id"
    /\ prevState' = state
    /\ message_id' = last_message_id
    /\ last_message_id' = advance_message_id(last_message_id)
    /\ nAlloc' = nAlloc + 1
    /\ IF last_message_id \in TrackedIds
       THEN /\ issuedAt' = [issuedAt EXCEPT ![last_message_id] = nAlloc + 1]
            /\ reuseGap' = IF issuedAt[last_message_id] = 0
                           THEN reuseGap
                           ELSE nAlloc + 1 - issuedAt[last_message_id]
       ELSE UNCHANGED <<issuedAt, reuseGap>>
    /\ UNCHANGED <<state, last_poison_message_id, blocked, raised, branch,
                   seenBlocked, recent, nNotified>>
    /\ UNCHANGED raceVars

(***************************************************************************)
(* BlockingDetector.get_message_id() called without serialization: the     *)
(* statements of lines 75-80 as separate steps of caller c.                *)
(***************************************************************************)
\* line 75: message_id = self.last_message_id
gmi_read(c) ==
    /\ pc[c] = "idle"
    /\ local_id' = [local_id EXCEPT ![c] = last_message_id]
    /\ pc' = [pc EXCEPT ![c] = "test"]
    /\ started' = [started EXCEPT ![c] = @ + 1]
    /\ overlapped' = (overlapped \/ \E d \in Callers \ {c} : pc[d] # "idle")
    /\ UNCHANGED <<last_message_id, loaded, returned>>
    /\ UNCHANGED detectorVars

\* line 76: if self.last_message_id == self.max_id_value
gmi_test(c) ==
    /\ pc[c] = "test"
    /\ pc' = [pc EXCEPT ![c] = IF last_message_id = max_id_value
                                THEN "store_zero" ELSE "load"]
    /\ UNCHANGED <<last_message_id, local_id, loaded, returned, started, overlapped>>
    /\ UNCHANGED detectorVars

\* line 79: the read of self.last_message_id += 1
gmi_load(c) ==
    /\ pc[c] = "load"
    /\ loaded' = [loaded EXCEPT ![c] = last_message_id]
    /\ pc' = [pc EXCEPT ![c] = "store"]
    /\ UNCHANGED <<last_message_id, local_id, returned, started, overlapped>>
    /\ UNCHANGED detectorVars

\* variant: the else branch writes the counter back without the increment
gmi_store_no_increment(c) ==
    /\ pc[c] \in {"store", "store_zero"}
    /\ last_message_id' = IF pc[c] = "store_zero" THEN 0 ELSE loaded[c]
    /\ pc' = [pc EXCEPT ![c] = "return"]
    /\ UNCHANGED <<local_id, loaded, returned, started, overlapped>>
    /\ UNCHANGED detectorVars

\* line 77: self.last_message_id = 0, or line 79: the write of the +=
gmi_store(c) ==
    /\ pc[c] \in {"store", "store_zero"}
    /\ last_message_id' = IF pc[c] = "store_zero" THEN 0 ELSE loaded[c] + 1
    /\ pc' = [pc EXCEPT ![c] = "return"]
    /\ UNCHANGED <<local_id, loaded, returned, started, overlapped>>
    /\ UNCHANGED detectorVars

\* line 80: return message_id
gmi_return(c) ==
    /\ pc[c] = "return"
    /\ returned' = Append(returned, local_id[c])
    /\ pc' = [pc EXCEPT ![c] = "idle"]
    /\ UNCHANGED <<last_message_id, local_id, loaded, started, overlapped>>
    /\ UNCHANGED detectorVars

(***************************************************************************)
(* Specifications                                                          *)
(***************************************************************************)
Notify == nNotified < MaxNotify /\ \E id \in PoisonIds : notify_poison_received(id)

Query == is_blocked

Allocate == nAlloc < MaxAlloc /\ get_message_id

Next == Notify \/ Query \/ Allocate

Spec == Init /\ [][Next]_vars

\* a full cycle of the message-id counter, with notifications and queries between the calls
CycleNotifyStep == nNotified < CycleNotify /\ \E id \in CycleIds : notify_poison_received(id)

CycleQuery == is_blocked

CycleAllocate == nAlloc < CycleCalls /\ get_message_id

NextCycle == CycleNotifyStep \/ CycleQuery \/ CycleAllocate

SpecCycle == Init /\ [][NextCycle]_vars

\* two callers of get_message_id on one detector, without serialization
RaceRead == \E c \in Callers : started[c] < RaceCalls /\ gmi_read(c)

RaceTest == \E c \in Callers : gmi_test(c)

RaceLoad == \E c \in Callers : gmi_load(c)

RaceStore == \E c \in Callers : gmi_store(c)

RaceReturn == \E c \in Callers : gmi_return(c)

NextRace == RaceRead \/ RaceTest \/ RaceLoad \/ RaceStore \/ RaceReturn

SpecRace == Init /\ [][NextRace]_vars

TypeOK ==
    /\ state \in State
    /\ last_poison_message_id \in {None} \cup (-1 .. max_id_value)
    /\ last_message_id \in 0 .. max_id_value
    /\ message_id \in {None} \cup (0 .. max_id_value)
    /\ blocked \in BOOLEAN
    /\ raised \in BOOLEAN

(***************************************************************************)
(* Vocabulary of the properties                                            *)
(***************************************************************************)
\* successor of an id under wraparound
Succ(p) == (p + 1) % (max_id_value + 1)

LastId == recent[Len(recent)]

PrevId == recent[Len(recent) - 1]

\* the two most recent notifications carry consecutive ids
LastPairConsecutive == Len(recent) >= 2 /\ LastId = Succ(PrevId)

\* the three most recent notifications carry consecutive ids
LastThreeConsecutive ==
    Len(recent) = 3 /\ recent[2] = Succ(recent[1]) /\ recent[3] = Succ(recent[2])

\* the state that follows st in the chain of the class docstring
ChainNext(st) ==
    CASE st = INIT -> BLOCKED_INTER_1
      [] st = BLOCKED_INTER_1 -> BLOCKED_INTER_2
      [] st = BLOCKED_INTER_2 -> BLOCKED
      [] st = BLOCKED -> FINAL
      [] OTHER -> FINAL

Notified == op = "notify_poison_received"

Queried == op = "is_blocked"

(***************************************************************************)
(* C1: on a fresh detector the notifications n, n+1, n+2 (successor under  *)
(* wraparound) leave the state at BLOCKED_INTER_1, BLOCKED_INTER_2 and     *)
(* BLOCKED; is_blocked() returns false after the first and the second and  *)
(* true after the third.                                                   *)
(***************************************************************************)
C1_ThreeConsecutiveIdsBlock ==
    /\ nNotified = 1 =>
          state = BLOCKED_INTER_1 /\ (Queried => blocked = FALSE)
    /\ (nNotified = 2 /\ LastPairConsecutive) =>
          state = BLOCKED_INTER_2 /\ (Queried => blocked = FALSE)
    /\ (nNotified = 3 /\ LastThreeConsecutive) =>
          state = BLOCKED /\ (Queried => blocked = TRUE)

C1_Witness ==
    /\ nNotified = 3
    /\ recent = <<max_id_value - 1, max_id_value, 0>>
    /\ Queried
    /\ blocked = TRUE

(***************************************************************************)
(* C2: a notification whose id is not the successor of the previously      *)
(* notified id (a repeat included) resets BLOCKED_INTER_1 and              *)
(* BLOCKED_INTER_2 to BLOCKED_INTER_1 and leaves BLOCKED and FINAL         *)
(* unchanged.                                                              *)
(***************************************************************************)
C2_NonSuccessorResetsOrKeeps ==
    (Notified /\ nNotified >= 2 /\ ~LastPairConsecutive) =>
        /\ prevState \in {BLOCKED_INTER_1, BLOCKED_INTER_2} => state = BLOCKED_INTER_1
        /\ prevState \in {BLOCKED, FINAL} => state = prevState

C2_Witness ==
    /\ Notified
    /\ Len(recent) >= 2
    /\ LastId = PrevId
    /\ prevState = BLOCKED
    /\ state = BLOCKED

(***************************************************************************)
(* C3: max_id_value followed by 0 is a consecutive pair: from              *)
(* BLOCKED_INTER_1, BLOCKED_INTER_2 and BLOCKED the notification of 0      *)
(* makes the same transition as an ordinary pair p, p + 1.                 *)
(***************************************************************************)
C3_WraparoundIsConsecutive ==
    (Notified /\ Len(recent) >= 2
        /\ prevState \in {BLOCKED_INTER_1, BLOCKED_INTER_2, BLOCKED}) =>
        /\ (PrevId = max_id_value /\ LastId = 0) => state = ChainNext(prevState)
        /\ LastId = PrevId + 1 => state = ChainNext(prevState)

C3_Witness ==
    /\ Notified
    /\ Len(recent) >= 2
    /\ PrevId = max_id_value
    /\ LastId = 0
    /\ prevState = BLOCKED_INTER_2
    /\ state = BLOCKED

(***************************************************************************)
(* C4: in BLOCKED, the notification of the successor of the previous id    *)
(* moves the state to FINAL, where is_blocked() returns false.             *)
(***************************************************************************)
C4_FourthConsecutiveIdFinal ==
    /\ (Notified /\ prevState = BLOCKED /\ LastPairConsecutive) => state = FINAL
    /\ (Queried /\ state = FINAL) => blocked = FALSE

C4_Witness ==
    /\ nNotified = 4
    /\ state = FINAL
    /\ Queried
    /\ blocked = FALSE

(***************************************************************************)
(* C5: is_blocked() returns true exactly when state is BLOCKED, and the    *)
(* call changes none of state, last_poison_message_id, last_message_id.    *)
(***************************************************************************)
C5_IsBlockedIffBlockedAndPure ==
    /\ [](Queried => (blocked = TRUE <=> state = BLOCKED))
    /\ [][op' = "is_blocked" =>
            UNCHANGED <<state, last_poison_message_id, last_message_id>>]_vars

C5_Witness ==
    /\ Queried
    /\ state = BLOCKED
    /\ blocked = TRUE
    /\ nAlloc > 0

(***************************************************************************)
(* C6: the k-th get_message_id call (k = 0, 1, ...) on a fresh detector    *)
(* returns k mod (max_id_value + 1), and an id is never returned twice     *)
(* within max_id_value + 1 successive calls, whatever notifications and    *)
(* queries come between the calls.                                         *)
(***************************************************************************)
C6_MessageIdsCycle ==
    /\ nAlloc > 0 => message_id = (nAlloc - 1) % (max_id_value + 1)
    /\ reuseGap = 0 \/ reuseGap >= max_id_value + 1

C6_Witness ==
    /\ nAlloc = max_id_value + 2
    /\ message_id = 0
    /\ reuseGap = max_id_value + 1
    /\ nNotified > 0
    /\ Queried

(***************************************************************************)
(* C7: a fresh detector has state INIT, no last poison id, message-id      *)
(* counter 0, and is_blocked() returns false.                              *)
(***************************************************************************)
C7_FreshDetector ==
    (nNotified = 0 /\ nAlloc = 0) =>
        /\ state = INIT
        /\ last_poison_message_id = None
        /\ last_message_id = 0
        /\ Queried => blocked = FALSE

C7_Witness ==
    /\ nNotified = 0
    /\ nAlloc = 0
    /\ Queried
    /\ state = INIT
    /\ blocked = FALSE

(***************************************************************************)
(* C8: the first notification on a fresh detector moves the state from     *)
(* INIT to BLOCKED_INTER_1, whatever id it carries.                        *)
(***************************************************************************)
C8_FirstNotificationStarts ==
    [][(nNotified = 0 /\ op' = "notify_poison_received") =>
            (state = INIT /\ state' = BLOCKED_INTER_1)]_vars

C8_Witness ==
    /\ Notified
    /\ nNotified = 1
    /\ recent = <<0>>
    /\ prevState = INIT
    /\ state = BLOCKED_INTER_1

(***************************************************************************)
(* C9: FINAL is terminal: no operation leaves it, and is_blocked() does    *)
(* not return true in it.                                                  *)
(***************************************************************************)
C9_FinalIsTerminal ==
    [][state = FINAL =>
            (state' = FINAL /\ (op' = "is_blocked" => blocked' = FALSE))]_vars

C9_Witness ==
    /\ Notified
    /\ prevState = FINAL
    /\ state = FINAL
    /\ ~LastPairConsecutive

(***************************************************************************)
(* C10: after every notification of id, in every state and branch,         *)
(* last_poison_message_id is -1 if id is max_id_value and id otherwise.    *)
(***************************************************************************)
C10_LastPoisonIdStored ==
    nNotified > 0 =>
        last_poison_message_id = (IF LastId = max_id_value THEN -1 ELSE LastId)

C10_Witness ==
    /\ Notified
    /\ prevState = FINAL
    /\ LastId = max_id_value
    /\ last_poison_message_id = -1

(***************************************************************************)
(* C11: get_message_id leaves state and last_poison_message_id unchanged,  *)
(* notify_poison_received leaves last_message_id unchanged, and only       *)
(* notify_poison_received changes state.                                   *)
(***************************************************************************)
C11_CounterAndStateMachineIndependent ==
    [][/\ nAlloc' # nAlloc => UNCHANGED <<state, last_poison_message_id>>
       /\ nNotified' # nNotified => UNCHANGED last_message_id
       /\ state' # state => nNotified' # nNotified]_vars

C11_Witness ==
    /\ op = "get_message_id"
    /\ nAlloc >= 2
    /\ state = BLOCKED
    /\ last_poison_message_id = -1
    /\ last_message_id = nAlloc

(***************************************************************************)
(* C12: after any sequence of operations last_message_id lies in           *)
(* [0, max_id_value], and so does every value get_message_id returns.      *)
(***************************************************************************)
C12_MessageIdsInRange ==
    /\ last_message_id \in 0 .. max_id_value
    /\ nAlloc > 0 => message_id \in 0 .. max_id_value

C12_Witness ==
    /\ nAlloc = max_id_value + 1
    /\ message_id = max_id_value
    /\ last_message_id = 0

(***************************************************************************)
(* C13: no call fails: the successor test is never evaluated while         *)
(* last_poison_message_id is None, because outside INIT it is an integer.  *)
(***************************************************************************)
C13_NoCallRaises ==
    /\ raised = FALSE
    /\ branch # "raise"
    /\ state # INIT => last_poison_message_id # None

C13_Witness ==
    /\ Notified
    /\ branch = "consecutive"
    /\ raised = FALSE
    /\ nAlloc > 0
    /\ blocked = TRUE

(***************************************************************************)
(* C14: the sentinel-based successor test agrees with modular succession:  *)
(* after the notification of p, the notification of q takes the            *)
(* consecutive branch exactly when q = (p + 1) mod (max_id_value + 1).     *)
(***************************************************************************)
C14_SuccessorTestIsModular ==
    (Notified /\ nNotified >= 2) =>
        (branch = "consecutive" <=> LastPairConsecutive)

C14_Witness ==
    /\ Notified
    /\ Len(recent) >= 2
    /\ PrevId = max_id_value
    /\ LastId = 0
    /\ prevState = FINAL
    /\ branch = "consecutive"

(***************************************************************************)
(* C15: a notification moves the state to BLOCKED only when at least three *)
(* notifications were received and the three most recent ones carry        *)
(* consecutive ids; is_blocked() is never true before the third            *)
(* notification.                                                           *)
(***************************************************************************)
C15_BlockedOnlyAfterThreeMessageRun ==
    /\ (Notified /\ state = BLOCKED /\ prevState # BLOCKED) =>
          (nNotified >= 3 /\ LastThreeConsecutive)
    /\ (Queried /\ blocked = TRUE) => nNotified >= 3
    /\ state = BLOCKED => nNotified >= 3

C15_Witness ==
    /\ Notified
    /\ prevState = BLOCKED_INTER_2
    /\ state = BLOCKED
    /\ nNotified > 3
    /\ LastThreeConsecutive

(***************************************************************************)
(* C16: whenever the three most recent notifications carry consecutive     *)
(* ids, the state is BLOCKED or FINAL.                                     *)
(***************************************************************************)
C16_ThreeMessageRunBlocks ==
    LastThreeConsecutive => state \in {BLOCKED, FINAL}

C16_Witness ==
    /\ LastThreeConsecutive
    /\ recent[2] = max_id_value
    /\ nNotified > 3
    /\ state = BLOCKED

(***************************************************************************)
(* C17: a notification makes at most one transition: the state stays, or   *)
(* advances to the next state of the chain, or is reset to                 *)
(* BLOCKED_INTER_1; FINAL is entered from BLOCKED only, so a detector in   *)
(* FINAL has been in BLOCKED after an earlier notification.                *)
(***************************************************************************)
C17_AtMostOneTransition ==
    /\ state \in {prevState, ChainNext(prevState), BLOCKED_INTER_1}
    /\ (state = FINAL /\ prevState # FINAL) => prevState = BLOCKED
    /\ state = FINAL => seenBlocked

C17_Witness ==
    /\ Notified
    /\ prevState = BLOCKED
    /\ state = FINAL
    /\ seenBlocked

(***************************************************************************)
(* C18: once the state is BLOCKED it stays in {BLOCKED, FINAL}, and after  *)
(* the first notification the state is never INIT again.                   *)
(***************************************************************************)
C18_ClassificationNeverUndone ==
    [][/\ state \in {BLOCKED, FINAL} => state' \in {BLOCKED, FINAL}
       /\ state # INIT => state' # INIT]_vars

C18_Witness ==
    /\ Notified
    /\ prevState = BLOCKED
    /\ state = BLOCKED
    /\ branch = "none"
    /\ LastId # PrevId

(***************************************************************************)
(* C20: last_poison_message_id is None exactly in INIT; otherwise it is an *)
(* integer in [-1, max_id_value - 1], never max_id_value.                  *)
(***************************************************************************)
C20_LastPoisonIdRange ==
    /\ last_poison_message_id = None <=> state = INIT
    /\ state # INIT => last_poison_message_id \in -1 .. (max_id_value - 1)

C20_Witness ==
    /\ Notified
    /\ prevState = BLOCKED_INTER_1
    /\ LastId = max_id_value
    /\ last_poison_message_id = -1

(***************************************************************************)
(* C19: two unserialized callers of get_message_id, whose read and update  *)
(* of last_message_id interleave, can be returned the same id within one   *)
(* cycle; as long as the calls do not overlap no id is returned twice.     *)
(***************************************************************************)
SameIdReturnedTwice ==
    \E i, j \in 1 .. Len(returned) : i < j /\ returned[i] = returned[j]

C19_RepeatOnlyWhenCallsOverlap ==
    SameIdReturnedTwice => overlapped

C19_Witness ==
    /\ Len(returned) = 2
    /\ returned[1] = returned[2]
    /\ overlapped
    /\ \A c \in Callers : pc[c] = "idle"
====
